---- MODULE Spec2Model ----
(***************************************************************************)
(* A model of the FSB5 MPEG stream encoder of fsbex:                       *)
(*   src/src/encode/mpeg.rs      encode (read, repair, write)              *)
(*   src/src/encode/mpeg_fix.rs  fix_fsb5_mpeg and its lookup tables       *)
(* Bytes are the integers 0..255; offsets are 0-based as in the source,    *)
(* so the byte at offset i of a buffer b is b[i + 1].                      *)
(***************************************************************************)
EXTENDS Integers, Sequences, FiniteSets, TLC

VARIABLES
    source,   \* encode: the bytes the reader still holds
    size,     \* encode: stream_size, the declared length of the stream
    raw,      \* encode: raw, the input of fix_fsb5_mpeg
    pos,      \* fix_fsb5_mpeg: the cursor
    out,      \* fix_fsb5_mpeg: out, which encode names fixed
    frames,   \* history: the slices appended to out (start, length, version, layer)
    branch,   \* history: the way the last pass of the scan loop ended
    pc,       \* encode: "read", "scan", "write", "done" or "panicked"
    result,   \* encode: "none" until it returns, then "Ok" or the error kind
    sink      \* encode: the bytes written to the sink

vars == <<source, size, raw, pos, out, frames, branch, pc, result, sink>>

(***************************************************************************)
(* Bounds of the model.                                                    *)
(***************************************************************************)
\* the largest number of pieces (frames, padding runs, stray bytes) in a stream
MaxSegs == 3
\* the largest number of bytes by which the declared size falls short of the reader
MaxCut == 1
\* the length of a stream that holds one probed header followed by filler
ProbeLen == 100

(***************************************************************************)
(* Byte arithmetic.                                                        *)
(***************************************************************************)
\* b >> n on a u8
shr(b, n) == b \div (2 ^ n)

\* b & 0x03, b & 0x01, b & 0x0F: the low bits of a u8
low_bits(b, n) == b % (2 ^ n)

\* b & 0xF0: the high nibble of a u8, in place
and_F0(b) == (b \div 16) * 16

min(a, b) == IF a <= b THEN a ELSE b

\* usize::saturating_sub
saturating_sub(a, b) == IF a >= b THEN a - b ELSE 0

\* the byte at 0-based offset i
At(input, i) == input[i + 1]

\* &input[from..to]
Slice(input, from, to) == SubSeq(input, from + 1, to)

(***************************************************************************)
(* Lookup tables.                                                          *)
(***************************************************************************)
V1_BITRATES_L1 ==
    <<0, 32, 64, 96, 128, 160, 192, 224, 256, 288, 320, 352, 384, 416, 448, -1>>

V1_BITRATES_L2 ==
    <<0, 32, 48, 56, 64, 80, 96, 112, 128, 160, 192, 224, 256, 320, 384, -1>>

V1_BITRATES_L3 ==
    <<0, 32, 40, 48, 56, 64, 80, 96, 112, 128, 160, 192, 224, 256, 320, -1>>

V2_BITRATES_L1 ==
    <<0, 32, 48, 56, 64, 80, 96, 112, 128, 144, 160, 176, 192, 224, 256, -1>>

V2_BITRATES_L2L3 ==
    <<0, 8, 16, 24, 32, 40, 48, 56, 64, 80, 96, 112, 128, 144, 160, -1>>

SAMPLE_RATES_V1 == <<44100, 48000, 32000, -1>>

SAMPLE_RATES_V2 == <<22050, 24000, 16000, -1>>

SAMPLE_RATES_V25 == <<11025, 12000, 8000, -1>>

get_mpeg_bitrate(mpeg_version_index, layer0, bitrate_index) ==
    LET layer == IF mpeg_version_index >= 1 /\ layer0 = 3 THEN 2 ELSE layer0
        layer_idx == layer - 1
    IN  IF mpeg_version_index = 0
        THEN CASE layer_idx = 0 -> V1_BITRATES_L1[bitrate_index + 1]
               [] layer_idx = 1 -> V1_BITRATES_L2[bitrate_index + 1]
               [] layer_idx = 2 -> V1_BITRATES_L3[bitrate_index + 1]
               [] OTHER -> -1
        ELSE CASE layer_idx = 0 -> V2_BITRATES_L1[bitrate_index + 1]
               [] layer_idx \in {1, 2} -> V2_BITRATES_L2L3[bitrate_index + 1]
               [] OTHER -> -1

get_mpeg_sample_rate(mpeg_version_index, sample_rate_index) ==
    CASE mpeg_version_index = 0 -> SAMPLE_RATES_V1[sample_rate_index + 1]
      [] mpeg_version_index = 1 -> SAMPLE_RATES_V2[sample_rate_index + 1]
      [] mpeg_version_index = 2 -> SAMPLE_RATES_V25[sample_rate_index + 1]
      [] OTHER -> -1

\* i32 arithmetic: the largest product is 144 * 448 * 1000 < 2^31, and every
\* operand is positive where the division is made, so nothing wraps
get_mpeg_frame_len_bytes(layer, bitrate_kbps, sample_rate_hz, padding) ==
    IF layer = 1
    THEN (((12 * bitrate_kbps * 1000) \div sample_rate_hz) + padding) * 4
    ELSE ((144 * bitrate_kbps * 1000) \div sample_rate_hz) + padding

\* next_multiple_of_4 with the remainder added instead of its complement
next_multiple_of_4_swapped(n) ==
    LET rem == n % 4 IN IF rem = 0 THEN n ELSE n + rem

\* n % 4 on an i32 that is never negative here
next_multiple_of_4(n) ==
    LET rem == n % 4 IN IF rem = 0 THEN n ELSE n + (4 - rem)

(***************************************************************************)
(* fix_fsb5_mpeg: the header fields and the guards of the scan loop.       *)
(***************************************************************************)
\* the loop condition asking for 2 bytes, as the peek does, instead of 4
loop_cond_short(p, end) == p + 2 <= end

\* while pos + 4 <= end
loop_cond(p, end) == p + 4 <= end

\* the sync check with the 11-bit sync word of the MPEG standard,
\* (b1 & 0xE0) == 0xE0, which admits MPEG-2.5 headers
is_sync_11bit(b0, b1) == b0 = 255 /\ (b1 \div 32) * 32 = 224

\* b0 == 0xFF && (b1 & 0xF0) == 0xF0
is_sync(b0, b1) == b0 = 255 /\ and_F0(b1) = 240

\* 3u8.wrapping_sub((b1 >> 3) & 0x03)
mpeg_version_index_of(b1) == (3 + 256 - low_bits(shr(b1, 3), 2)) % 256

\* 4i32 - ((b1 >> 1) & 0x03) as i32
layer_of(b1) == 4 - low_bits(shr(b1, 1), 2)

\* (1..=3).contains(&layer)
layer_ok(layer) == layer \in 1..3

bitrate_index_of(b2) == low_bits(shr(b2, 4), 4)

sample_rate_index_of(b2) == low_bits(shr(b2, 2), 2)

padding_of(b2) == low_bits(shr(b2, 1), 1)

\* the bitrate check rejecting only the -1 sentinel
bitrate_rejected_negative_only(bitrate_kbps) == bitrate_kbps < 0

\* if bitrate_kbps <= 0
bitrate_rejected(bitrate_kbps) == bitrate_kbps <= 0

\* if sample_rate <= 0
sample_rate_rejected(sample_rate) == sample_rate <= 0

\* if frame_len < 4
frame_len_rejected(frame_len) == frame_len < 4

\* the scan without its check that the whole frame is in the buffer
lacks_full_frame_never(p, frame_len, end) == FALSE

\* if pos + frame_len as usize > end { break }
lacks_full_frame(p, frame_len, end) == p + frame_len > end

\* the copy of a frame without its last byte
frame_slice_short(input, p, frame_len) == Slice(input, p, p + frame_len - 1)

\* &input[pos..pos + frame_len as usize]
frame_slice(input, p, frame_len) == Slice(input, p, p + frame_len)

\* while pos < end && input[pos] == 0 { pos += 1 }
RECURSIVE skip_zeros(_, _)
skip_zeros(input, p) ==
    IF p < Len(input) /\ At(input, p) = 0 THEN skip_zeros(input, p + 1) ELSE p

\* the scan without its peek: the alignment is made after every frame
peek_not_header_always(input, p) == TRUE

\* pos + 2 <= end && !(input[pos] == 0xFF && (input[pos + 1] & 0xF0) == 0xF0)
peek_not_header(input, p) ==
    p + 2 <= Len(input) /\ ~is_sync(At(input, p), At(input, p + 1))

\* The cursor after a frame of frame_len bytes was copied and the cursor moved
\* to p, its end: the peek, the alignment seek, the zero run and the step back.
after_frame(input, p, frame_len) ==
    LET end == Len(input) IN
    IF peek_not_header(input, p)
    THEN LET seek == next_multiple_of_4(frame_len) - frame_len
             q == skip_zeros(input, min(p + seek, end))
         IN  IF q < end THEN saturating_sub(q, 1) ELSE q
    ELSE p

\* The checks of the 4-byte header at p, in the order of the source. kind is
\* the check that rejects the header ("sync", "layer", "bitrate",
\* "sample_rate", "frame_len"), or "ok" with the frame length it declares.
decode_header(input, p) ==
    LET no(k) == [kind |-> k, frame_len |-> 0, version |-> 0, layer |-> 0]
        b0 == At(input, p)
        b1 == At(input, p + 1)
        b2 == At(input, p + 2)
    IN
    IF ~is_sync(b0, b1) THEN no("sync")
    ELSE
    LET mpeg_version_index == mpeg_version_index_of(b1)
        layer == layer_of(b1)
    IN
    IF ~layer_ok(layer) THEN no("layer")
    ELSE
    LET bitrate_index == bitrate_index_of(b2)
        sample_rate_index == sample_rate_index_of(b2)
        padding == padding_of(b2)
        bitrate_kbps == get_mpeg_bitrate(mpeg_version_index, layer, bitrate_index)
    IN
    IF bitrate_rejected(bitrate_kbps) THEN no("bitrate")
    ELSE
    LET sample_rate == get_mpeg_sample_rate(mpeg_version_index, sample_rate_index) IN
    IF sample_rate_rejected(sample_rate) THEN no("sample_rate")
    ELSE
    LET frame_len == get_mpeg_frame_len_bytes(layer, bitrate_kbps, sample_rate, padding) IN
    IF frame_len_rejected(frame_len) THEN no("frame_len")
    ELSE [kind |-> "ok", frame_len |-> frame_len,
          version |-> mpeg_version_index, layer |-> layer]

\* One pass through the body of the scan loop with the cursor at p. kind names
\* the way the pass ends: the loop condition fails ("exit"), a header check
\* advances the cursor by one and continues, the frame does not fit ("break"),
\* the frame is copied ("copy"), or an index is out of range ("panic").
scan_iter(input, p) ==
    LET end == Len(input)
        stay(k) == [kind |-> k, pos |-> p, frame_len |-> 0, version |-> 0, layer |-> 0]
    IN
    IF ~loop_cond(p, end) THEN stay("exit")
    ELSE IF p + 3 >= end THEN stay("panic")
    ELSE
    LET h == decode_header(input, p) IN
    IF h.kind # "ok"
    THEN [kind |-> h.kind, pos |-> p + 1, frame_len |-> 0, version |-> 0, layer |-> 0]
    ELSE IF lacks_full_frame(p, h.frame_len, end) THEN stay("break")
    ELSE IF p + h.frame_len > end THEN stay("panic")
    ELSE [kind |-> "copy",
          pos |-> after_frame(input, p + h.frame_len, h.frame_len),
          frame_len |-> h.frame_len,
          version |-> h.version,
          layer |-> h.layer]

\* fix_fsb5_mpeg as a function of its input: the scan loop run to its end from
\* cursor p, with acc copied so far in frames of the lengths lens. A panic
\* yields the output <<-1>>, which is no byte sequence.
RECURSIVE fix_from(_, _, _, _)
fix_from(input, p, acc, lens) ==
    LET r == scan_iter(input, p) IN
    CASE r.kind \in {"exit", "break"} -> [out |-> acc, lens |-> lens]
      [] r.kind = "panic" -> [out |-> <<-1>>, lens |-> lens]
      [] r.kind = "copy" ->
            fix_from(input, r.pos, acc \o frame_slice(input, p, r.frame_len),
                     Append(lens, r.frame_len))
      [] OTHER -> fix_from(input, r.pos, acc, lens)

fix_fsb5_mpeg(input) == fix_from(input, 0, <<>>, <<>>)

(***************************************************************************)
(* The streams the reader may hold.                                        *)
(***************************************************************************)
\* n filler bytes 0x55, which never start a header
Fill(n) == [i \in 1..n |-> 85]

\* a frame of n bytes: the 4-byte header hdr and its payload
Frame(hdr, n) == hdr \o Fill(n - 4)

\* MPEG-2 Layer III, 8 kbps, 24000 Hz: 48 bytes, 49 with the padding bit
F48 == Frame(<<255, 243, 20, 0>>, 48)
F48ff == SubSeq(F48, 1, 47) \o <<255>>
F49 == Frame(<<255, 243, 22, 0>>, 49)
\* MPEG-1 Layer III, 40 kbps, 44100 Hz: 130 bytes, 131 with the padding bit
F130 == Frame(<<255, 251, 32, 0>>, 130)
F131 == Frame(<<255, 251, 34, 0>>, 131)
\* MPEG-1 Layer III, 128 kbps, 44100 Hz: 417 bytes
F417 == Frame(<<255, 251, 144, 0>>, 417)

Pieces ==
    { F48, F48ff, F49, F130, F131,
      Tail(F48),
      <<0>>, <<0, 0>>, <<0, 0, 0>>,
      <<1>>, <<255>> }

RECURSIVE Flat(_)
Flat(ss) == IF ss = <<>> THEN <<>> ELSE Head(ss) \o Flat(Tail(ss))

Streams ==
    UNION { { Flat(ss) : ss \in [1..n -> Pieces] } : n \in 1..MaxSegs }

\* one header with filler after it
Probe(b1, b2) == <<255, b1, b2, 0>> \o Fill(ProbeLen - 4)

\* every value of the second header byte; and for the second bytes that pass
\* the sync check, every bitrate index and the reserved sample-rate index
Probes ==
    { Probe(b1, 20) : b1 \in 0..255 }
    \cup { Probe(b1, b2) : b1 \in 240..255,
                           b2 \in { 16 * i + 4 : i \in 0..15 } \cup {6, 28} }

Inputs == Streams \cup Probes \cup { <<>>, F417 \o <<0, 0, 0>> \o F417 }

(***************************************************************************)
(* encode                                                                  *)
(***************************************************************************)
\* source.limit(stream_size): at most n bytes of what the reader holds
limit(src, n) == SubSeq(src, 1, min(n, Len(src)))

Init ==
    /\ source \in Inputs
    /\ size \in { n \in (Len(source) - MaxCut)..(Len(source) + 1) : n >= 1 }
    /\ raw = <<>>
    /\ pos = 0
    /\ out = <<>>
    /\ frames = <<>>
    /\ branch = "none"
    /\ pc = "read"
    /\ result = "none"
    /\ sink = <<>>

\* copy(&mut source.limit(stream_size), &mut raw) returns Ok: raw holds what
\* the limited reader gave until its end
ReadOk ==
    /\ pc = "read"
    /\ raw' = limit(source, size)
    /\ source' = SubSeq(source, Len(raw') + 1, Len(source))
    /\ pc' = "scan"
    /\ UNCHANGED <<size, pos, out, frames, branch, result, sink>>

\* copy(...) returns Err: encode returns the error as EncodeStream
ReadErr ==
    /\ pc = "read"
    /\ result' = "EncodeStream"
    /\ pc' = "done"
    /\ UNCHANGED <<source, size, raw, pos, out, frames, branch, sink>>

\* one pass through the loop of fix_fsb5_mpeg
ScanStep ==
    /\ pc = "scan"
    /\ LET r == scan_iter(raw, pos) IN
       /\ branch' = r.kind
       /\ pos' = r.pos
       /\ out' = IF r.kind = "copy" THEN out \o frame_slice(raw, pos, r.frame_len) ELSE out
       /\ frames' = IF r.kind = "copy"
                    THEN Append(frames, [start |-> pos, len |-> r.frame_len,
                                         version |-> r.version, layer |-> r.layer])
                    ELSE frames
       /\ pc' = CASE r.kind \in {"exit", "break"} -> "write"
                  [] r.kind = "panic" -> "panicked"
                  [] OTHER -> "scan"
    /\ UNCHANGED <<source, size, raw, result, sink>>

\* sink.write_all(&fixed) returns Ok: encode returns Ok(sink)
WriteOk ==
    /\ pc = "write"
    /\ sink' = sink \o out
    /\ result' = "Ok"
    /\ pc' = "done"
    /\ UNCHANGED <<source, size, raw, pos, out, frames, branch>>

\* sink.write_all(&fixed) returns Err after part of the bytes were written:
\* encode returns the error as EncodeStream
WriteErr ==
    /\ pc = "write"
    /\ \E k \in {0, Len(out) \div 2} : sink' = sink \o SubSeq(out, 1, k)
    /\ result' = "EncodeStream"
    /\ pc' = "done"
    /\ UNCHANGED <<source, size, raw, pos, out, frames, branch>>

Next == ReadOk \/ ReadErr \/ ScanStep \/ WriteOk \/ WriteErr

Spec == Init /\ [][Next]_vars

(***************************************************************************)
(* Notions the properties are stated in.                                   *)
(***************************************************************************)
\* a header that passes every check stands at offset p of input
HeaderAt(input, p) ==
    p + 4 <= Len(input) /\ decode_header(input, p).kind = "ok"

\* the frame length declared by the header at offset p (0 when it is rejected)
DeclaredLen(input, p) == decode_header(input, p).frame_len

\* a whole valid frame stands at offset p of input
FrameAt(input, p) ==
    HeaderAt(input, p) /\ p + DeclaredLen(input, p) <= Len(input)

\* from offset p to its end, input is valid frames back to back and nothing else
RECURSIVE CleanFrom(_, _)
CleanFrom(input, p) ==
    \/ p = Len(input)
    \/ FrameAt(input, p) /\ CleanFrom(input, p + DeclaredLen(input, p))

\* the lengths of the frames copied so far
CopiedLens == [i \in 1..Len(frames) |-> frames[i].len]

\* the offset in out of the i-th copied frame
RECURSIVE OutOffset(_)
OutOffset(i) == IF i <= 1 THEN 0 ELSE OutOffset(i - 1) + frames[i - 1].len

(***************************************************************************)
(* C1: the output of the repair is never longer than its input.            *)
(* The step back of one byte after a frame whose length is a multiple of   *)
(* 4 re-reads the last byte of the frame just copied; when that byte is    *)
(* 0xFF and a header continues after it, the byte is copied twice.         *)
(***************************************************************************)
C1_OutputNotLonger == Len(out) <= Len(raw)

(***************************************************************************)
(* C2: an input that is valid frames back to back and nothing else is      *)
(* returned unchanged.                                                     *)
(***************************************************************************)
C2_CleanStreamUnchanged ==
    (pc = "write" /\ CleanFrom(raw, 0)) => out = raw

C2_Witness ==
    /\ pc = "write"
    /\ CleanFrom(raw, 0)
    /\ Len(frames) >= 2
    /\ \E i \in 1..(Len(frames) - 1) : frames[i].len % 4 # 0
    /\ out = raw

(***************************************************************************)
(* C3: a valid frame F with one stray byte (not 0xFF) right before it,     *)
(* where the stray byte is the first byte of the stream or directly        *)
(* follows a copied frame, is read at its first byte and copied whole.     *)
(* After a copied frame whose length is 1 more than a multiple of 4 the    *)
(* alignment seek of 3 bytes passes the stray byte and the first bytes of  *)
(* F, so F is never read at its first byte.                                *)
(***************************************************************************)
C3_StrayByteSkipped ==
    pc = "write" =>
        \A q \in 0..(Len(raw) - 1) :
            ( /\ At(raw, q) # 255
              /\ FrameAt(raw, q + 1)
              /\ \/ q = 0
                 \/ \E i \in 1..Len(frames) : frames[i].start + frames[i].len = q )
            => \E j \in 1..Len(frames) :
                   /\ frames[j].start = q + 1
                   /\ frames[j].len = DeclaredLen(raw, q + 1)

(***************************************************************************)
(* C4: a copied frame A of length L, then exactly the zero bytes that pad  *)
(* L to a multiple of 4, then a valid frame B that ends the buffer: A and  *)
(* B are the last two frames copied, adjacent in the output, and when A    *)
(* starts the buffer the output is A followed by B.                        *)
(***************************************************************************)
C4_PaddingRemoved ==
    pc = "write" =>
        \A i \in 1..Len(frames) :
            LET a == frames[i]
                e == a.start + a.len
                b == e + ((4 - (a.len % 4)) % 4)
            IN  ( /\ b + 4 <= Len(raw)
                  /\ \A k \in e..(b - 1) : At(raw, k) = 0
                  /\ FrameAt(raw, b)
                  /\ b + DeclaredLen(raw, b) = Len(raw) )
                => /\ i + 1 = Len(frames)
                   /\ frames[i + 1].start = b
                   /\ frames[i + 1].len = Len(raw) - b
                   /\ Len(out) >= a.len + (Len(raw) - b)
                   /\ SubSeq(out, Len(out) - (a.len + (Len(raw) - b)) + 1, Len(out))
                        = Slice(raw, a.start, e) \o Slice(raw, b, Len(raw))
                   /\ a.start = 0 =>
                        /\ out = Slice(raw, 0, e) \o Slice(raw, b, Len(raw))
                        /\ Len(out) = a.len + (Len(raw) - b)

\* the scenario of two 417-byte frames with 3 zero bytes between them
C4_Witness ==
    /\ pc = "write"
    /\ raw = F417 \o <<0, 0, 0>> \o F417
    /\ out = F417 \o F417
    /\ Len(out) = 2 * 417

(***************************************************************************)
(* C5: scanning the output again from offset 0 finds exactly the frames    *)
(* that were copied: each starts with a valid header whose declared length *)
(* is the number of bytes copied for it, and repairing the output gives    *)
(* the output.                                                             *)
(***************************************************************************)
C5_RescanStable ==
    pc = "write" =>
        /\ fix_fsb5_mpeg(out).out = out
        /\ fix_fsb5_mpeg(out).lens = CopiedLens
        /\ \A i \in 1..Len(frames) :
              /\ is_sync(At(out, OutOffset(i)), At(out, OutOffset(i) + 1))
              /\ DeclaredLen(out, OutOffset(i)) = frames[i].len

C5_Witness ==
    /\ pc = "write"
    /\ Len(frames) >= 2
    /\ Len(out) < Len(raw)
    /\ fix_fsb5_mpeg(out).out = out

(***************************************************************************)
(* C6: the repair ends without a failure: no index is out of range, and    *)
(* from one header read to the next the cursor grows strictly (also after  *)
(* the step back of one byte) and stays within the buffer, so the loop is  *)
(* left after at most Len(raw) + 1 passes and the call returns.            *)
(***************************************************************************)
C6_Terminates ==
    /\ [](pc # "panicked")
    /\ [][(pc = "scan" /\ pc' = "scan") => (pos' > pos /\ pos' <= Len(raw))]_vars

\* the step back took the cursor into the frame just copied
C6_Witness ==
    /\ pc = "done"
    /\ result = "Ok"
    /\ \E i \in 1..(Len(frames) - 1) :
          frames[i + 1].start < frames[i].start + frames[i].len

(***************************************************************************)
(* C7: a header that passes every check but whose frame does not fit in    *)
(* the buffer ends the scan at once: nothing is appended, the cursor stays *)
(* and the loop is left.                                                   *)
(***************************************************************************)
C7_TruncatedFrameDropped ==
    [][(/\ pc = "scan"
        /\ HeaderAt(raw, pos)
        /\ pos + DeclaredLen(raw, pos) > Len(raw))
       => (/\ pc' = "write"
           /\ out' = out
           /\ frames' = frames
           /\ pos' = pos
           /\ branch' = "break")]_vars

C7_Witness ==
    /\ pc = "write"
    /\ branch = "break"
    /\ Len(frames) >= 1
    /\ HeaderAt(raw, pos)
    /\ pos + DeclaredLen(raw, pos) > Len(raw)

(***************************************************************************)
(* C8 as stated: the bitrate check rejects a header only when its bitrate  *)
(* index is 15. (A rejecting pass leaves the cursor one byte past the      *)
(* header it rejected.)                                                    *)
(***************************************************************************)
C8_OnlyReservedRejected ==
    branch = "bitrate" => bitrate_index_of(At(raw, pos + 1)) = 15

(***************************************************************************)
(* C8 as amended: for every version and layer, the bitrate check rejects a *)
(* header that passed the sync and layer checks exactly when its bitrate   *)
(* index is 0 or 15 (a table value <= 0), and then the cursor advances by  *)
(* one byte and nothing is copied.                                         *)
(***************************************************************************)
C8_ZeroAndReservedRejected ==
    [][(/\ pc = "scan"
        /\ pos + 4 <= Len(raw)
        /\ is_sync(At(raw, pos), At(raw, pos + 1))
        /\ layer_of(At(raw, pos + 1)) \in 1..3)
       => /\ branch' = "bitrate" <=> bitrate_index_of(At(raw, pos + 2)) \in {0, 15}
          /\ branch' = "bitrate" => (pos' = pos + 1 /\ out' = out /\ pc' = "scan")]_vars

C8_Witness ==
    /\ branch = "bitrate"
    /\ bitrate_index_of(At(raw, pos + 1)) = 0
    /\ padding_of(At(raw, pos + 1)) = 1
    /\ layer_of(At(raw, pos)) = 1

(***************************************************************************)
(* C9: encode returns Ok only when exactly size bytes were read and the    *)
(* whole repaired output was written; every failure is an EncodeStream     *)
(* error. The count that copy returns is discarded, so a reader that ends  *)
(* before size bytes still leads to Ok.                                    *)
(***************************************************************************)
C9_OkOnlyAfterFullRead ==
    pc = "done" =>
        /\ result \in {"Ok", "EncodeStream"}
        /\ result = "Ok" => (Len(raw) = size /\ sink = out)

(***************************************************************************)
(* C10: a header that passes the sync check decodes to version index 0 or  *)
(* 1, so the MPEG-2.5 sample rates are never looked up and no frame is     *)
(* copied as an MPEG-2.5 frame.                                            *)
(***************************************************************************)
C10_NoMpeg25 ==
    /\ (/\ pc = "scan"
        /\ pos + 4 <= Len(raw)
        /\ is_sync(At(raw, pos), At(raw, pos + 1)))
       => mpeg_version_index_of(At(raw, pos + 1)) \in {0, 1}
    /\ \A i \in 1..Len(frames) : frames[i].version \in {0, 1}

C10_Witness ==
    /\ pc = "scan"
    /\ pos + 4 <= Len(raw)
    /\ is_sync(At(raw, pos), At(raw, pos + 1))
    /\ mpeg_version_index_of(At(raw, pos + 1)) = 1
    /\ Len(frames) >= 1
    /\ frames[1].version = 0

====
